---- MODULE Spec2Model ----
(***************************************************************************)
(* WebCAN (src/app.py): decoding of a PEAK .trc trace against a DBC signal *)
(* database (decode_can) and the three Dash callbacks around it            *)
(* (save_files, decode_and_plot, download_csv).                            *)
(*                                                                         *)
(* Two specifications:                                                     *)
(*   SpecDecode  decode_can run statement by statement on inputs drawn     *)
(*               from bounded sets of databases and trace files;           *)
(*   Spec        the callbacks, issued by two browser sessions against the *)
(*               process-wide staging files.                               *)
(*                                                                         *)
(* Conventions.  A Python value that may be None is a sequence: <<>> is    *)
(* None and <<v>> is v.  A text line is the sequence of its whitespace     *)
(* separated tokens.  A float is kept in tenths (float("10.5") is 105).    *)
(***************************************************************************)
EXTENDS Integers, Sequences, FiniteSets, TLC

None == <<>>
Some(v) == <<v>>
Truthy(x) == x # None

\* ------------------------------------------------------------------------
\* Bounds
\* ------------------------------------------------------------------------
\* Largest number of data lines of a generated trace file.
MaxRecords == 2
\* Largest number of callbacks the two sessions issue in a run.
MaxCalls == 5

\* ------------------------------------------------------------------------
\* Text: token classes of the three line patterns, and the conversions
\* ------------------------------------------------------------------------
\* \d+
IsDigits(t) == t \in {"0", "1", "2", "00", "01", "64", "100", "200", "300"}
\* [0-9A-Fa-f]+
IsHex(t) == IsDigits(t) \/ t \in {"0A", "0a"}
\* \w+
IsWord(t) == IsHex(t) \/ t \in {"Rx", "DT", "garbage", "comment"}
\* \d+\.\d+
IsFloat(t) == t \in {"10.5", "5.0"}
\* \d+\)
IsSeqParen(t) == t \in {"1)"}

\* int(x, 16)
HexVal(t) ==
  CASE t = "0" -> 0 [] t = "00" -> 0 [] t = "1" -> 1 [] t = "01" -> 1
    [] t = "2" -> 2 [] t = "0A" -> 10 [] t = "0a" -> 10 [] t = "64" -> 100
    [] t = "100" -> 256 [] t = "200" -> 512 [] t = "300" -> 768

\* float(x), in tenths
FloatVal(t) == CASE t = "10.5" -> 105 [] t = "5.0" -> 50

\* ";$FILEVERSION=" in line
HasMarker(line) ==
  \E i \in DOMAIN line :
    line[i] \in {";$FILEVERSION=1.1", ";$FILEVERSION=2.0", ";$FILEVERSION=2.1",
                 ";$FILEVERSION=3.0", ";$FILEVERSION="}

\* line.strip().split("=")[-1] of a marker line
VersionToken(line) ==
  IF line = None THEN ""
  ELSE CASE line[Len(line)] = ";$FILEVERSION=1.1" -> "1.1"
         [] line[Len(line)] = ";$FILEVERSION=2.0" -> "2.0"
         [] line[Len(line)] = ";$FILEVERSION=2.1" -> "2.1"
         [] line[Len(line)] = ";$FILEVERSION=3.0" -> "3.0"
         [] OTHER -> ""

\* ------------------------------------------------------------------------
\* The line patterns (src/app.py:23-25); re.match anchors at the line start
\* and the last group takes the longest run of hex tokens.
\* ------------------------------------------------------------------------
RECURSIVE HexRun(_, _)
HexRun(line, from) ==
  IF from > Len(line) \/ ~IsHex(line[from]) THEN <<>>
  ELSE <<line[from]>> \o HexRun(line, from + 1)

NoMatch == [matched |-> FALSE, g1 |-> "", g2 |-> "", g3 |-> "", g4 |-> <<>>]

pattern_v1(line) ==
  IF /\ Len(line) >= 6
     /\ IsSeqParen(line[1]) /\ IsFloat(line[2]) /\ IsWord(line[3])
     /\ IsHex(line[4]) /\ IsDigits(line[5]) /\ IsHex(line[6])
  THEN [matched |-> TRUE, g1 |-> line[2], g2 |-> line[4], g3 |-> line[5],
        g4 |-> HexRun(line, 6)]
  ELSE NoMatch

pattern_v2(line) ==
  IF /\ Len(line) >= 8
     /\ IsDigits(line[1]) /\ IsFloat(line[2]) /\ line[3] = "DT"
     /\ IsDigits(line[4]) /\ IsHex(line[5]) /\ line[6] = "Rx"
     /\ IsDigits(line[7]) /\ IsHex(line[8])
  THEN [matched |-> TRUE, g1 |-> line[2], g2 |-> line[5], g3 |-> line[7],
        g4 |-> HexRun(line, 8)]
  ELSE NoMatch

pattern_v3(line) ==
  IF /\ Len(line) >= 9
     /\ IsDigits(line[1]) /\ IsFloat(line[2]) /\ line[3] = "DT"
     /\ IsDigits(line[4]) /\ IsHex(line[5]) /\ line[6] = "Rx"
     /\ line[7] = "-" /\ IsDigits(line[8]) /\ IsHex(line[9])
  THEN [matched |-> TRUE, g1 |-> line[2], g2 |-> line[5], g3 |-> line[8],
        g4 |-> HexRun(line, 9)]
  ELSE NoMatch

\* pattern.match(line) for the pattern named p
Match(p, line) ==
  CASE p = "v1" -> pattern_v1(line)
    [] p = "v2" -> pattern_v2(line)
    [] OTHER -> pattern_v3(line)

\* ------------------------------------------------------------------------
\* Header window and pattern selection (src/app.py:18-33)
\* ------------------------------------------------------------------------
HeaderLines == 10

\* [next(file) for _ in range(10)]: StopIteration on a shorter file
ReadHeader(trace) ==
  IF Len(trace) < HeaderLines
  THEN [raised |-> TRUE, header |-> <<>>]
  ELSE [raised |-> FALSE, header |-> SubSeq(trace, 1, HeaderLines)]

RECURSIVE FirstMarker(_, _)
\* next((line for line in header if marker in line), "")
FirstMarker(header, i) ==
  IF i > Len(header) THEN None
  ELSE IF HasMarker(header[i]) THEN header[i]
  ELSE FirstMarker(header, i + 1)

SelectPattern(file_version) ==
  IF file_version = "1.1" THEN "v1"
  ELSE IF file_version = "2.0" THEN "v2"
  ELSE IF file_version = "2.1" THEN "v3"
  ELSE "v3"

\* ------------------------------------------------------------------------
\* Scan of the trace lines (src/app.py:35-42)
\* ------------------------------------------------------------------------
EmptyScan == [timestamps |-> <<>>, message_ids |-> <<>>, message_payloads |-> <<>>]

ScanLine(p, acc, line) ==
  LET m == Match(p, line) IN
  IF m.matched
  THEN [timestamps |-> Append(acc.timestamps, FloatVal(m.g1)),
        message_ids |-> Append(acc.message_ids, HexVal(m.g2)),
        message_payloads |-> Append(acc.message_payloads, m.g4)]
  ELSE acc

RECURSIVE ScanLines(_, _, _, _)
ScanLines(p, trace, i, acc) ==
  IF i > Len(trace) THEN acc
  ELSE ScanLines(p, trace, i + 1, ScanLine(p, acc, trace[i]))

\* ------------------------------------------------------------------------
\* The signal database (cantools, as used at src/app.py:17, 46-48, 53, 57)
\* ------------------------------------------------------------------------
Signal(n, b) == [name |-> n, byte |-> b, scale |-> 1, offset |-> 0]
Message(id, len, sigs) == [frame_id |-> id, length |-> len, signals |-> sigs]

\* cantools.database.load_file(dbc_path): None stands for the exception
load_file(dbc) ==
  IF dbc = None THEN None
  ELSE IF ~dbc[1].valid THEN None
  ELSE Some(dbc[1])

\* db.get_message_by_frame_id(msg_id): None stands for KeyError
get_message_by_frame_id(db, msg_id) ==
  IF \E i \in DOMAIN db.messages : db.messages[i].frame_id = msg_id
  THEN Some(db.messages[CHOOSE i \in DOMAIN db.messages :
                          db.messages[i].frame_id = msg_id])
  ELSE None

\* bytes(int(x, 16) for x in payload.split()): None stands for ValueError
data_bytes(payload) ==
  IF \E i \in DOMAIN payload : HexVal(payload[i]) > 255 THEN None
  ELSE Some([i \in DOMAIN payload |-> HexVal(payload[i])])

SignalNamesOf(msg) == {msg.signals[i].name : i \in DOMAIN msg.signals}

\* msg.decode(data, decode_choices=False, scaling=True): the mapping
\* name -> value, None when the data is shorter than the message
decode(msg, data) ==
  IF Len(data) < msg.length THEN None
  ELSE Some([n \in SignalNamesOf(msg) |->
              LET s == msg.signals[CHOOSE i \in DOMAIN msg.signals :
                                     msg.signals[i].name = n]
              IN data[s.byte] * s.scale + s.offset])

\* ------------------------------------------------------------------------
\* The result dictionary (src/app.py:44-48)
\* ------------------------------------------------------------------------
RECURSIVE Flatten(_)
Flatten(ss) == IF ss = <<>> THEN <<>> ELSE Head(ss) \o Flatten(Tail(ss))

\* the signal names in the order of the two nested for loops
SignalNameSeq(db) ==
  Flatten([i \in DOMAIN db.messages |->
            [j \in DOMAIN db.messages[i].signals |-> db.messages[i].signals[j].name]])

Range(s) == {s[i] : i \in DOMAIN s}

RECURSIVE SetDefaults(_, _, _)
\* result.setdefault(name, [None] * n) for each name in turn
SetDefaults(result, names, n) ==
  IF names = <<>> THEN result
  ELSE LET k == Head(names) IN
       IF k \in Range(result.cols)
       THEN SetDefaults(result, Tail(names), n)
       ELSE SetDefaults(
              [cols |-> Append(result.cols, k),
               data |-> [c \in Range(result.cols) \cup {k} |->
                          IF c = k THEN [i \in 1..n |-> None] ELSE result.data[c]]],
              Tail(names), n)

PrepareResult(db, timestamps) ==
  SetDefaults([cols |-> <<"Timestamp">>,
               data |-> [c \in {"Timestamp"} |->
                          [i \in DOMAIN timestamps |-> Some(timestamps[i])]]],
              SignalNameSeq(db), Len(timestamps))

\* ------------------------------------------------------------------------
\* One iteration of the decode loop (src/app.py:51-59)
\* ------------------------------------------------------------------------
DecodeRecord(db, result, idx, msg_id, payload) ==
  LET msg == get_message_by_frame_id(db, msg_id) IN
  IF msg = None THEN [raised |-> FALSE, result |-> result]
  ELSE LET bytes == data_bytes(payload) IN
    IF bytes = None THEN [raised |-> TRUE, result |-> result]
    ELSE LET decoded == decode(msg[1], bytes[1]) IN
      IF decoded = None THEN [raised |-> TRUE, result |-> result]
      ELSE [raised |-> FALSE,
            result |-> [result EXCEPT !.data =
              [c \in DOMAIN result.data |->
                IF c \in DOMAIN decoded[1]
                THEN [result.data[c] EXCEPT ![idx] = Some(decoded[1][c])]
                ELSE result.data[c]]]]

RECURSIVE DecodeLoop(_, _, _, _)
DecodeLoop(db, scan, idx, result) ==
  IF idx > Len(scan.message_ids) THEN [raised |-> FALSE, result |-> result]
  ELSE LET r == DecodeRecord(db, result, idx, scan.message_ids[idx],
                             scan.message_payloads[idx]) IN
       IF r.raised THEN r ELSE DecodeLoop(db, scan, idx + 1, r.result)

\* ------------------------------------------------------------------------
\* The data frame (src/app.py:61-64)
\* ------------------------------------------------------------------------
RECURSIVE SelectSeq2(_, _)
SelectSeq2(s, keep) ==
  IF s = <<>> THEN <<>>
  ELSE IF Head(s) \in keep THEN <<Head(s)>> \o SelectSeq2(Tail(s), keep)
  ELSE SelectSeq2(Tail(s), keep)

\* pd.DataFrame(result)
DataFrame(result, n) == [nrows |-> n, cols |-> result.cols, data |-> result.data]

DropNaKeepAll(df) == df

\* df.dropna(axis=1, how='all'): a column stays when some cell of it is not
\* null; on a frame without rows no column stays
DropNa(df) ==
  LET keep == {c \in Range(df.cols) : \E i \in 1..df.nrows : df.data[c][i] # None} IN
  [nrows |-> df.nrows, cols |-> SelectSeq2(df.cols, keep),
   data |-> [c \in keep |-> df.data[c]]]

EmptyFrame == [nrows |-> 0, cols |-> <<>>, data |-> [c \in {} |-> <<>>]]

\* ------------------------------------------------------------------------
\* decode_can as a whole (src/app.py:16-64)
\* ------------------------------------------------------------------------
Raise(e) == [raised |-> TRUE, error |-> e, df |-> EmptyFrame]
Return(df) == [raised |-> FALSE, error |-> "", df |-> df]

decode_can(dbc, trc) ==
  LET db == load_file(dbc) IN
  IF db = None THEN Raise("load_file")
  ELSE IF trc = None THEN Raise("open")
  ELSE LET h == ReadHeader(trc[1]) IN
    IF h.raised THEN Raise("StopIteration")
    ELSE LET pattern == SelectPattern(VersionToken(FirstMarker(h.header, 1)))
             scan == ScanLines(pattern, trc[1], 1, EmptyScan)
             r == DecodeLoop(db[1], scan, 1, PrepareResult(db[1], scan.timestamps))
         IN IF r.raised THEN Raise("decode")
            ELSE Return(DropNa(DataFrame(r.result, Len(scan.timestamps))))

\* ------------------------------------------------------------------------
\* The callbacks' bodies (src/app.py:104-154) as functions of the staging
\* files.  fs = [dbc, trc, csv]: the content of uploads/latest.dbc,
\* uploads/latest.trc and uploads/decoded.csv, None when the file is absent.
\* events lists the calls a body makes, in the order it makes them.
\* ------------------------------------------------------------------------
Text(t) == [text |-> t, figs |-> <<>>]
Figs(cols) == [text |-> "", figs |-> cols]
NoOutput == Text("")

\* c.lower()
Lower(c) == IF c = "Timestamp" THEN "timestamp" ELSE c

RECURSIVE SignalCols(_)
\* [c for c in df.columns if c.lower() != "timestamp"]
SignalCols(cols) ==
  IF cols = <<>> THEN <<>>
  ELSE IF Lower(Head(cols)) # "timestamp" THEN <<Head(cols)>> \o SignalCols(Tail(cols))
  ELSE SignalCols(Tail(cols))

Answer(raised, plot, disabled, fs, events) ==
  [raised |-> raised, plot |-> plot, disabled |-> disabled, fs |-> fs,
   events |-> events]

PlotBeforeCsv(r, fs) ==
  IF r.raised THEN Answer(TRUE, NoOutput, TRUE, fs, <<"decode_can">>)
  ELSE IF r.df.nrows = 0 \/ Len(r.df.cols) < 2
  THEN Answer(FALSE, Text("No data to plot."), TRUE, fs, <<"decode_can">>)
  ELSE LET signal_cols == SignalCols(r.df.cols) IN
       Answer(FALSE, Figs(signal_cols), FALSE, [fs EXCEPT !.csv = Some(r.df)],
              <<"decode_can">> \o [i \in DOMAIN signal_cols |-> "Graph"]
                \o <<"to_csv">>)

PlotWithoutCsv(r, fs) ==
  IF r.raised THEN Answer(TRUE, NoOutput, TRUE, fs, <<"decode_can">>)
  ELSE IF r.df.nrows = 0 \/ Len(r.df.cols) < 2
  THEN Answer(FALSE, Text("No data to plot."), TRUE, fs, <<"decode_can">>)
  ELSE LET signal_cols == SignalCols(r.df.cols) IN
       Answer(FALSE, Figs(signal_cols), FALSE, fs,
              <<"decode_can">> \o [i \in DOMAIN signal_cols |-> "Graph"])

\* src/app.py:129-144, r being what decode_can did
AfterDecode(r, fs) ==
  IF r.raised THEN Answer(TRUE, NoOutput, TRUE, fs, <<"decode_can">>)
  ELSE IF r.df.nrows = 0 \/ Len(r.df.cols) < 2
  THEN Answer(FALSE, Text("No data to plot."), TRUE, fs, <<"decode_can">>)
  ELSE LET signal_cols == SignalCols(r.df.cols) IN
       Answer(FALSE, Figs(signal_cols), FALSE, [fs EXCEPT !.csv = Some(r.df)],
              <<"decode_can", "to_csv">> \o [i \in DOMAIN signal_cols |-> "Graph"])

DecodeWhenEitherExists(fs) ==
  IF ~(fs.dbc # None \/ fs.trc # None)
  THEN Answer(FALSE, Text("Please upload both files."), TRUE, fs, <<>>)
  ELSE AfterDecode(decode_can(fs.dbc, fs.trc), fs)

\* src/app.py:126-144
decode_and_plot(fs) ==
  IF ~(fs.dbc # None /\ fs.trc # None)
  THEN Answer(FALSE, Text("Please upload both files."), TRUE, fs, <<>>)
  ELSE AfterDecode(decode_can(fs.dbc, fs.trc), fs)

\* src/app.py:151-154; data None is dash.no_update
download_csv(fs) ==
  IF fs.csv # None
  THEN [data |-> fs.csv, fs |-> fs, events |-> <<"send_file">>]
  ELSE [data |-> None, fs |-> fs, events |-> <<>>]

\* src/app.py:104-118; a content is the pair <<prefix, data>> that
\* content.split(',') gives, msg the list that " | ".join(msg) joins
save_files(dbc_content, dbc_name, trc_content, trc_name, fs) ==
  LET fs1 == IF Truthy(dbc_content) /\ Truthy(dbc_name)
             THEN [fs EXCEPT !.dbc = Some(dbc_content[1][2])] ELSE fs
      m1 == IF Truthy(dbc_content) /\ Truthy(dbc_name)
            THEN << <<"DBC uploaded: ", dbc_name[1]>> >> ELSE <<>>
      fs2 == IF Truthy(trc_content) /\ Truthy(trc_name)
             THEN [fs1 EXCEPT !.trc = Some(trc_content[1][2])] ELSE fs1
      m2 == IF Truthy(trc_content) /\ Truthy(trc_name)
            THEN Append(m1, <<"TRC uploaded: ", trc_name[1]>>) ELSE m1
  IN [fs |-> fs2, msg |-> m2]

\* ------------------------------------------------------------------------
\* Inputs: signal databases and trace files
\* ------------------------------------------------------------------------
DbA == [valid |-> TRUE, messages |-> <<
          Message(256, 2, <<Signal("Speed", 1), Signal("Rpm", 2)>>),
          Message(512, 1, <<Signal("Temp", 1)>>) >>]
\* a database with a signal that is itself called Timestamp
DbTs == [valid |-> TRUE, messages |-> <<
          Message(256, 1, <<Signal("Speed", 1)>>),
          Message(512, 1, <<Signal("Timestamp", 1)>>) >>]
\* a database none of whose messages is on the bus
DbOther == [valid |-> TRUE, messages |-> <<
          Message(1024, 1, <<Signal("Volt", 1)>>) >>]
\* a file that is no DBC
DbBad == [valid |-> FALSE, messages |-> <<>>]
DbcContents == {DbA, DbTs, DbOther, DbBad}

CommentLine == <<";", "comment">>
JunkLine == <<"garbage">>
MarkerLine(v) ==
  CASE v = "1.1" -> <<";$FILEVERSION=1.1">>
    [] v = "2.0" -> <<";$FILEVERSION=2.0">>
    [] v = "2.1" -> <<";$FILEVERSION=2.1">>
    [] v = "3.0" -> <<";$FILEVERSION=3.0">>

Rec(ts, id, dlc, payload) == [ts |-> ts, id |-> id, dlc |-> dlc, payload |-> payload]
\* frames: two known ones, an unknown one, one shorter than its message in
\* DbA, one with a payload token that is no byte; equal and decreasing times
RecSpeed == Rec("10.5", "100", "2", <<"64", "00">>)
RecUnknown == Rec("10.5", "300", "1", <<"01">>)
RecTemp == Rec("5.0", "200", "1", <<"0A">>)
RecShort == Rec("5.0", "100", "1", <<"64">>)
RecNoByte == Rec("10.5", "200", "1", <<"100">>)
Records == {RecSpeed, RecUnknown, RecTemp, RecShort, RecNoByte}

\* a data line as each of the three trace formats writes it
DataLine(fmt, r) ==
  CASE fmt = "v1" -> <<"1)", r.ts, "Rx", r.id, r.dlc>> \o r.payload
    [] fmt = "v2" -> <<"1", r.ts, "DT", "1", r.id, "Rx", r.dlc>> \o r.payload
    [] fmt = "v3" -> <<"1", r.ts, "DT", "1", r.id, "Rx", "-", r.dlc>> \o r.payload

Formats == {"v1", "v2", "v3"}
Versions == {"1.1", "2.0", "2.1", "3.0"}

BodyLines(fmt) == {DataLine(fmt, r) : r \in Records} \cup {JunkLine}
SeqsUpTo(S, n) == UNION {[1..k -> S] : k \in 0..n}

Pad(n) == [i \in 1..n |-> CommentLine]
Opt(m) == IF m = None THEN <<>> ELSE <<MarkerLine(m[1])>>
OptVersions == {None} \cup {Some(v) : v \in Versions}

\* n1 comment lines, a marker or none, n2 comment lines, a second marker or
\* none, then the data lines
TraceFile(n1, m1, n2, m2, body) == Pad(n1) \o Opt(m1) \o Pad(n2) \o Opt(m2) \o body

Traces ==
  { TraceFile(n1, m1, n2, m2, body) :
      n1 \in {0, HeaderLines}, m1 \in OptVersions, n2 \in {0, HeaderLines - 1},
      m2 \in {None, Some("1.1")},
      body \in UNION {SeqsUpTo(BodyLines(f), MaxRecords) : f \in Formats} }

\* ------------------------------------------------------------------------
\* State
\* ------------------------------------------------------------------------
Sessions == {"A", "B"}

VARIABLES
  files,   \* [dbc, trc, csv]: the three staging files of the process
  ui,      \* per session, the properties of its page's components
  dc,      \* the frame of a decode_can call that runs statement by statement
  last,    \* the callback that ran last: what it was given and what it did
  hist     \* what the sessions have uploaded and decoded so far

vars == <<files, ui, dc, last, hist>>

NoFiles == [dbc |-> None, trc |-> None, csv |-> None]

\* app.layout (src/app.py:70-88): nothing uploaded, the button disabled
Page == [dbc_contents |-> None, dbc_filename |-> None,
         trc_contents |-> None, trc_filename |-> None,
         file_status |-> <<>>, plot_div |-> NoOutput,
         disabled |-> TRUE, download |-> None]

NoCall == [kind |-> "none", session |-> "", raised |-> FALSE, pre |-> NoFiles,
           was_disabled |-> [t \in Sessions |-> TRUE], events |-> <<>>,
           out |-> None]
NoHist == [up_dbc |-> None, up_trc |-> None, good |-> None, calls |-> 0]

Idle == [pc |-> "idle", db |-> None, pattern |-> "", scan |-> EmptyScan,
         result |-> None, idx |-> 0, error |-> "", df |-> None,
         answer |-> None]

\* ------------------------------------------------------------------------
\* SpecDecode: decode_and_plot on staged files drawn from the input sets,
\* with decode_can run one block of statements at a time
\* ------------------------------------------------------------------------
InitDecode ==
  /\ \E d \in DbcContents, t \in Traces :
       files = [dbc |-> Some(d), trc |-> Some(t), csv |-> None]
  /\ ui = [s \in Sessions |-> Page]
  /\ dc = [Idle EXCEPT !.pc = "load"]
  /\ last = NoCall
  /\ hist = NoHist

Fail(e) == [dc EXCEPT !.pc = "raised", !.error = e]

\* src/app.py:17
Load ==
  /\ dc.pc = "load"
  /\ LET db == load_file(files.dbc) IN
     dc' = IF db = None THEN Fail("load_file")
           ELSE [dc EXCEPT !.pc = "header", !.db = db]
  /\ UNCHANGED <<files, ui, last, hist>>

\* src/app.py:18-33
Select ==
  /\ dc.pc = "header"
  /\ LET h == ReadHeader(files.trc[1]) IN
     dc' = IF h.raised THEN Fail("StopIteration")
           ELSE [dc EXCEPT !.pc = "scan",
                   !.pattern = SelectPattern(VersionToken(FirstMarker(h.header, 1)))]
  /\ UNCHANGED <<files, ui, last, hist>>

\* src/app.py:35-48
Scan ==
  /\ dc.pc = "scan"
  /\ LET scan == ScanLines(dc.pattern, files.trc[1], 1, EmptyScan) IN
     dc' = [dc EXCEPT !.pc = "decode", !.scan = scan, !.idx = 1,
              !.result = Some(PrepareResult(dc.db[1], scan.timestamps))]
  /\ UNCHANGED <<files, ui, last, hist>>

\* src/app.py:51-59, one iteration
DecodeOne ==
  /\ dc.pc = "decode"
  /\ dc.idx <= Len(dc.scan.message_ids)
  /\ LET r == DecodeRecord(dc.db[1], dc.result[1], dc.idx,
                           dc.scan.message_ids[dc.idx],
                           dc.scan.message_payloads[dc.idx]) IN
     dc' = IF r.raised THEN Fail("decode")
           ELSE [dc EXCEPT !.idx = dc.idx + 1, !.result = Some(r.result)]
  /\ UNCHANGED <<files, ui, last, hist>>

\* src/app.py:61-64
Frame ==
  /\ dc.pc = "decode"
  /\ dc.idx > Len(dc.scan.message_ids)
  /\ dc' = [dc EXCEPT !.pc = "returned",
              !.df = Some(DropNa(DataFrame(dc.result[1], Len(dc.scan.timestamps))))]
  /\ UNCHANGED <<files, ui, last, hist>>

\* src/app.py:129-144: the callback goes on with what decode_can did
Report ==
  /\ dc.pc \in {"returned", "raised"}
  /\ LET r == IF dc.pc = "raised" THEN Raise(dc.error) ELSE Return(dc.df[1])
         a == AfterDecode(r, files)
     IN /\ dc' = [dc EXCEPT !.pc = "done", !.answer = Some(a)]
        /\ files' = a.fs
  /\ UNCHANGED <<ui, last, hist>>

NextDecode == Load \/ Select \/ Scan \/ DecodeOne \/ Frame \/ Report

SpecDecode == InitDecode /\ [][NextDecode]_vars

\* ------------------------------------------------------------------------
\* Spec: the three callbacks, each run to its end, from two sessions
\* ------------------------------------------------------------------------
WebDbcs == {DbA, DbTs}
TraceGood ==
  TraceFile(0, Some("1.1"), HeaderLines - 1, None,
            <<DataLine("v1", RecSpeed), DataLine("v1", RecTemp)>>)
TraceUnknown ==
  TraceFile(0, Some("1.1"), HeaderLines - 1, None, <<DataLine("v1", RecUnknown)>>)
TraceShort == TraceFile(0, Some("1.1"), 0, None, <<DataLine("v1", RecSpeed)>>)
WebTraces == {TraceGood, TraceUnknown, TraceShort}

\* what the uploads directory may hold from an earlier run of the process
LeftOver ==
  { NoFiles,
    [NoFiles EXCEPT !.csv = Some(decode_can(Some(DbA), Some(TraceGood)).df)],
    [dbc |-> Some(DbA), trc |-> Some(TraceGood),
     csv |-> Some(decode_can(Some(DbA), Some(TraceGood)).df)] }

Init ==
  /\ files \in LeftOver
  /\ ui = [s \in Sessions |-> Page]
  /\ dc = Idle
  /\ last = NoCall
  /\ hist = NoHist

Called(kind, s, raised, events, out) ==
  [kind |-> kind, session |-> s, raised |-> raised, pre |-> files,
   was_disabled |-> [t \in Sessions |-> ui[t].disabled],
   events |-> events, out |-> out]

\* the contents property dcc.Upload sets: "<prefix>,<base64 of the file>"
Contents(data) == Some(<<"data:base64", data>>)

\* save_files as Dash calls it after session s picked a file: the inputs are
\* the properties of both upload components of that session's page
Saved(s, page, kind, data) ==
  LET r == save_files(page.dbc_contents, page.dbc_filename,
                      page.trc_contents, page.trc_filename, files) IN
  /\ hist.calls < MaxCalls
  /\ files' = r.fs
  /\ ui' = [ui EXCEPT ![s] = [page EXCEPT !.file_status = r.msg]]
  /\ last' = Called("upload", s, FALSE, <<>>, None)
  /\ hist' = [hist EXCEPT
       !.calls = @ + 1,
       !.up_dbc = IF kind = "dbc" THEN Some(data) ELSE @,
       !.up_trc = IF kind = "trc" THEN Some(data) ELSE @]
  /\ UNCHANGED dc

UploadDbc(s) ==
  \E d \in WebDbcs :
    Saved(s, [ui[s] EXCEPT !.dbc_contents = Contents(d),
                           !.dbc_filename = Some("can.dbc")], "dbc", d)

UploadTrc(s) ==
  \E t \in WebTraces :
    Saved(s, [ui[s] EXCEPT !.trc_contents = Contents(t),
                           !.trc_filename = Some("log.trc")], "trc", t)

\* a click on "Decode and Plot"; a callback that raises updates no output
Decode(s) ==
  LET a == decode_and_plot(files) IN
  /\ hist.calls < MaxCalls
  /\ files' = a.fs
  /\ ui' = IF a.raised THEN ui
           ELSE [ui EXCEPT ![s].plot_div = a.plot, ![s].disabled = a.disabled]
  /\ last' = Called("decode", s, a.raised, a.events, None)
  /\ hist' = [hist EXCEPT
       !.calls = @ + 1,
       !.good = IF ~a.raised /\ ~a.disabled
                THEN Some(decode_can(files.dbc, files.trc).df) ELSE @]
  /\ UNCHANGED dc

\* a request to the download callback
Download(s) ==
  LET r == download_csv(files) IN
  /\ hist.calls < MaxCalls
  /\ files' = r.fs
  /\ ui' = IF r.data = None THEN ui ELSE [ui EXCEPT ![s].download = r.data]
  /\ last' = Called("download", s, FALSE, r.events, r.data)
  /\ hist' = [hist EXCEPT !.calls = @ + 1]
  /\ UNCHANGED dc

Next == \E s \in Sessions : UploadDbc(s) \/ UploadTrc(s) \/ Decode(s) \/ Download(s)

Spec == Init /\ [][Next]_vars

\* ------------------------------------------------------------------------
\* Properties: the notions they speak of, stated without the loops of the code
\* ------------------------------------------------------------------------
StagedDb == files.dbc[1]
StagedTrace == files.trc[1]

\* the lines of the header window that exist
Window(trace) ==
  SubSeq(trace, 1, IF Len(trace) < HeaderLines THEN Len(trace) ELSE HeaderLines)

\* the grammar the version marker asks for
ExpectedGrammar(trace) ==
  LET w == Window(trace)
      marked == {i \in DOMAIN w : HasMarker(w[i])}
  IN IF marked = {} THEN "v3"
     ELSE LET first == CHOOSE i \in marked : \A j \in marked : i <= j
              token == VersionToken(w[first])
          IN CASE token = "1.1" -> "v1" [] token = "2.0" -> "v2"
               [] token = "2.1" -> "v3" [] OTHER -> "v3"

MatchingLines(trace, p) == {i \in DOMAIN trace : Match(p, trace[i]).matched}

RECURSIVE MatchingTimestamps(_, _, _)
\* the timestamps of the lines that match p, in file order
MatchingTimestamps(trace, p, i) ==
  IF i > Len(trace) THEN <<>>
  ELSE IF Match(p, trace[i]).matched
  THEN <<FloatVal(trace[i][2])>> \o MatchingTimestamps(trace, p, i + 1)
  ELSE MatchingTimestamps(trace, p, i + 1)

\* the frame id written as token is in no message of the database
UnknownFrame(db, token) == \A k \in DOMAIN db.messages : db.messages[k].frame_id # HexVal(token)
Unknown(i) == get_message_by_frame_id(dc.db[1], dc.scan.message_ids[i]) = None
Rows == DOMAIN dc.scan.message_ids
HasTable == dc.pc \in {"returned", "done"} /\ dc.df # None
SignalNames(db) == Range(SignalNameSeq(db))

RemoveAt(s, i) == SubSeq(s, 1, i - 1) \o SubSeq(s, i + 1, Len(s))
ScanWithout(scan, i) ==
  [timestamps |-> RemoveAt(scan.timestamps, i),
   message_ids |-> RemoveAt(scan.message_ids, i),
   message_payloads |-> RemoveAt(scan.message_payloads, i)]
RowsWithout(result, i) ==
  [cols |-> result.cols,
   data |-> [c \in DOMAIN result.data |-> RemoveAt(result.data[c], i)]]

\* ------------------------------------------------------------------------
\* Properties of decode_can (specification SpecDecode)
\* ------------------------------------------------------------------------

C2_NoMatchNoData ==
  ( /\ dc.pc = "done"
    /\ StagedDb.valid
    /\ MatchingLines(StagedTrace, ExpectedGrammar(StagedTrace)) = {} )
  => /\ ~dc.answer[1].raised
     /\ dc.answer[1].plot = Text("No data to plot.")
     /\ dc.answer[1].disabled

\* C3: a record whose frame id is not in the database raises nothing and
\* removes no row; its row keeps its timestamp and has no signal value; the
\* other rows are what they are without it; a trace whose records are all of
\* this kind gives a table without signal columns and the answer "No data to
\* plot.".
C3_UnknownFrameSkipped ==
  /\ (dc.pc = "raised" /\ dc.error = "decode") => ~Unknown(dc.idx)
  /\ dc.pc = "decode" =>
       \A i \in Rows : (i < dc.idx /\ Unknown(i)) =>
         \A c \in DOMAIN dc.result[1].data :
           dc.result[1].data[c][i] =
             IF c = "Timestamp" THEN Some(dc.scan.timestamps[i]) ELSE None
  /\ (dc.pc = "returned" \/ (dc.pc = "raised" /\ dc.error = "decode")) =>
       \A i \in Rows : Unknown(i) =>
         LET scan == ScanWithout(dc.scan, i)
             r == DecodeLoop(dc.db[1], scan, 1,
                             PrepareResult(dc.db[1], scan.timestamps))
         IN /\ r.raised = (dc.pc = "raised")
            /\ dc.pc = "returned" => r.result = RowsWithout(dc.result[1], i)
  /\ dc.pc = "returned" =>
       /\ dc.df[1].nrows = Len(dc.scan.message_ids)
       /\ \A i \in Rows : Unknown(i) =>
            /\ dc.df[1].data["Timestamp"][i] = Some(dc.scan.timestamps[i])
            /\ \A c \in Range(dc.df[1].cols) \ {"Timestamp"} :
                 dc.df[1].data[c][i] = None
  /\ ( /\ dc.pc = "done"
       /\ StagedDb.valid
       /\ LET p == ExpectedGrammar(StagedTrace) IN
          /\ MatchingLines(StagedTrace, p) # {}
          /\ \A i \in MatchingLines(StagedTrace, p) :
               UnknownFrame(StagedDb, Match(p, StagedTrace[i]).g2) )
     => /\ ~dc.answer[1].raised
        /\ dc.answer[1].plot = Text("No data to plot.")
        /\ dc.answer[1].disabled

\* C4: a cell of a signal's column has a value only in the rows whose record
\* resolves to a message that owns the signal.
C4_CellOnlyForOwner ==
  HasTable =>
    \A s \in SignalNames(dc.db[1]) \cap Range(dc.df[1].cols) : \A i \in Rows :
      dc.df[1].data[s][i] # None =>
        /\ ~Unknown(i)
        /\ s \in SignalNamesOf(
             get_message_by_frame_id(dc.db[1], dc.scan.message_ids[i])[1])

\* C5: the grammar is the one the first marker of the first 10 lines asks
\* for, the 2.1 grammar without a marker there, and the selection never
\* fails.
C5_GrammarSelected ==
  (dc.db # None /\ dc.pc # "header") =>
    /\ dc.error # "StopIteration"
    /\ dc.pattern = ExpectedGrammar(StagedTrace)

\* C9: the table has one row per matching line, in file order, each with
\* the timestamp of its line.
C9_RowPerMatchingLine ==
  HasTable =>
    LET expected == MatchingTimestamps(StagedTrace, dc.pattern, 1) IN
    /\ dc.df[1].nrows = Len(expected)
    /\ expected # <<>> =>
         \A i \in DOMAIN expected : dc.df[1].data["Timestamp"][i] = Some(expected[i])

\* ------------------------------------------------------------------------
\* Properties of the callbacks (specification Spec)
\* ------------------------------------------------------------------------
Events == Range(last.events)
Missing(fs) == fs.dbc = None \/ fs.trc = None

\* C6: a decode action that finds a staged file missing answers "Please
\* upload both files." with the button disabled, raises nothing, does not
\* call decode_can and leaves the CSV file as it was.
C6_MissingFile ==
  (last.kind = "decode" /\ Missing(last.pre)) =>
    /\ ~last.raised
    /\ ui[last.session].plot_div = Text("Please upload both files.")
    /\ ui[last.session].disabled
    /\ "decode_can" \notin Events
    /\ files = last.pre

\* a decode action that found the DBC but no trace, beside an older CSV
C6_Witness ==
  /\ last.kind = "decode"
  /\ last.pre.dbc # None /\ last.pre.trc = None /\ last.pre.csv # None

\* C7: a decode action that builds charts has written the CSV from the
\* decoded table before the first chart; a download action does not decode,
\* it serves the CSV file that exists or does nothing.
C7_CsvBeforeCharts ==
  /\ (last.kind = "decode" /\ "Graph" \in Events) =>
       /\ \E k \in DOMAIN last.events :
            /\ last.events[k] = "to_csv"
            /\ \A j \in DOMAIN last.events : last.events[j] = "Graph" => k < j
            /\ \E j \in DOMAIN last.events : last.events[j] = "decode_can" /\ j < k
       /\ files.csv = Some(decode_can(last.pre.dbc, last.pre.trc).df)
  /\ last.kind = "download" =>
       /\ "decode_can" \notin Events
       /\ files = last.pre
       /\ last.out = last.pre.csv
       /\ last.pre.csv = None => last.events = <<>>

\* a download that serves the table of an earlier decode action with charts
C7_Witness ==
  /\ last.kind = "download"
  /\ hist.good # None
  /\ last.out = hist.good

\* C8: a decode action reads the DBC and the trace of the most
\* recent upload of each kind, whoever uploaded them, and a download gives
\* the CSV of the most recent successful decode.
C8_LastUploadOfEachKind ==
  /\ (last.kind = "decode" /\ ~Missing(last.pre)) =>
       /\ hist.up_dbc # None => last.pre.dbc = hist.up_dbc
       /\ hist.up_trc # None => last.pre.trc = hist.up_trc
  /\ (last.kind = "download" /\ hist.good # None) => last.out = hist.good

\* C10: while a download button is enabled the CSV file exists and holds
\* the table of the most recent decode action that returned disabled =
\* False; an upload or a download action changes neither a button nor the
\* CSV file.
C10_EnabledHasCsv ==
  /\ \A s \in Sessions : ~ui[s].disabled =>
       /\ files.csv # None
       /\ hist.good # None
       /\ files.csv = hist.good
  /\ last.kind \in {"upload", "download"} =>
       /\ files.csv = last.pre.csv
       /\ \A s \in Sessions : ui[s].disabled = last.was_disabled[s]

\* an upload after a successful decode: the button is still enabled
C10_Witness ==
  /\ last.kind = "upload"
  /\ \E s \in Sessions : ~ui[s].disabled
  /\ files.trc # last.pre.trc

====
